---- MODULE Spec2Model ----
(***************************************************************************)
(* Revenue roll-up pipeline of revenue_analysis.py and detailed_rev.py.    *)
(*                                                                         *)
(* A DataFrame is a sequence of records (rows, in index order).  A missing *)
(* cell of an object column is NA, a missing cell of a numeric column is   *)
(* NaN.  A date as read from a CSV file is the triple <<year, month, day>>;*)
(* a parsed datetime is the 1-tuple <<yyyymmdd>>.  Amounts and rates are   *)
(* small naturals and arithmetic on them is exact.                         *)
(***************************************************************************)
EXTENDS Integers, Sequences, FiniteSets, TLC

VARIABLES teams, revenue, rates, pc, joined, converted, quarterly_rev,
          monthly_rev, sales_id, filtered_sales, total_revenue

vars == <<teams, revenue, rates, pc, joined, converted, quarterly_rev,
          monthly_rev, sales_id, filtered_sales, total_revenue>>

\* ---------------------------------------------------------------- bounds
MaxTeams == 2
MaxRevenue == 2
MaxRates == 2

\* ------------------------------------------------------- missing values
NA == "NaN"
NaN == -1
NaT == <<>>

\* ------------------------------------------------------------- helpers
RECURSIVE Flatten(_)
Flatten(ss) == IF ss = <<>> THEN <<>> ELSE Head(ss) \o Flatten(Tail(ss))

SeqsUpTo(S, n) == UNION {[1..k -> S] : k \in 0..n}

Range(s) == {s[i] : i \in 1..Len(s)}

\* lexicographic order on integer tuples of equal length (group keys)
RECURSIVE KeyLess(_, _)
KeyLess(a, b) ==
    IF a = <<>> THEN FALSE
    ELSE IF Head(a) # Head(b) THEN Head(a) < Head(b)
    ELSE KeyLess(Tail(a), Tail(b))

\* groupby(sort=True): the group keys in ascending order
RECURSIVE SortedKeys(_)
SortedKeys(S) ==
    IF S = {} THEN <<>>
    ELSE LET m == CHOOSE x \in S : \A y \in S \ {x} : KeyLess(x, y)
         IN <<m>> \o SortedKeys(S \ {m})

\* ---------------------------------------------------- get_currency_code
\* mutant: the default the comment on line 94 announces
country_to_currency_DefaultUSD(c) ==
    IF c = "US" THEN "USD"
    ELSE IF c = "Japan" THEN "JPY"
    ELSE IF c = "Netherlands" \/ c = "Spain" THEN "EUR"
    ELSE IF c = "Australia" THEN "AUD"
    ELSE IF c = "UK" THEN "GBP"
    ELSE IF c = "Brazil" THEN "BRL"
    ELSE IF c = "Canada" THEN "CAD"
    ELSE IF c = "India" THEN "INR"
    ELSE IF c = "Mexico" THEN "MXN"
    ELSE IF c = "Singapore" THEN "SGD"
    ELSE "USD"

country_to_currency(c) ==
    IF c = "US" THEN "USD"
    ELSE IF c = "Japan" THEN "JPY"
    ELSE IF c = "Netherlands" \/ c = "Spain" THEN "EUR"
    ELSE IF c = "Australia" THEN "AUD"
    ELSE IF c = "UK" THEN "GBP"
    ELSE IF c = "Brazil" THEN "BRL"
    ELSE IF c = "Canada" THEN "CAD"
    ELSE IF c = "India" THEN "INR"
    ELSE IF c = "Mexico" THEN "MXN"
    ELSE IF c = "Singapore" THEN "SGD"
    ELSE "EUR"

get_currency_code(teams_df) ==
    [i \in 1..Len(teams_df) |->
        [ID |-> teams_df[i].ID, Country |-> teams_df[i].Country,
         Email |-> teams_df[i].Email, Name |-> teams_df[i].Name,
         Team |-> teams_df[i].Team,
         Currency |-> country_to_currency(teams_df[i].Country)]]

\* ------------------------------------------------------------- get_team
\* pd.merge(how='left'): left order kept, one output row per matching right
\* row in right order, one row with missing right-side cells when none.
TeamMatches(r, teams_df) == SelectSeq(teams_df, LAMBDA t : t.ID = r.UserID)

JoinTeam(r, t) ==
    [UserID |-> r.UserID, Date |-> r.Date, Revenue |-> r.Revenue,
     ID |-> t.ID, Country |-> t.Country, Email |-> t.Email,
     Name |-> t.Name, Team |-> t.Team, Currency |-> t.Currency]

NoTeam == [ID |-> NaN, Country |-> NA, Email |-> NA, Name |-> NA,
           Team |-> NA, Currency |-> NA]

\* mutant: how='inner', a revenue row without a team record is dropped
TeamRowsFor_Inner(r, teams_df) ==
    LET m == TeamMatches(r, teams_df)
    IN [k \in 1..Len(m) |-> JoinTeam(r, m[k])]

\* mutant: the team table deduplicated on ID, only the first match is joined
TeamRowsFor_FirstMatch(r, teams_df) ==
    LET m == TeamMatches(r, teams_df)
    IN IF m = <<>> THEN <<JoinTeam(r, NoTeam)>> ELSE <<JoinTeam(r, m[1])>>

TeamRowsFor(r, teams_df) ==
    LET m == TeamMatches(r, teams_df)
    IN IF m = <<>> THEN <<JoinTeam(r, NoTeam)>>
       ELSE [k \in 1..Len(m) |-> JoinTeam(r, m[k])]

get_team(revenue_df, teams_df) ==
    Flatten([i \in 1..Len(revenue_df) |-> TeamRowsFor(revenue_df[i], teams_df)])

\* ----------------------------------------------------- convert_currency
\* pd.to_datetime: parses a <<year, month, day>> cell, leaves a datetime
\* (and a missing cell) as it is
to_datetime(d) == IF Len(d) = 3 THEN <<d[1] * 10000 + d[2] * 100 + d[3]>> ELSE d

\* mutant: a missing rate counts as 0 (fillna(0) before the product)
Mul_NaNAsZero(a, b) == IF a = NaN \/ b = NaN THEN 0 ELSE a * b

\* float multiplication: NaN propagates
Mul(a, b) == IF a = NaN \/ b = NaN THEN NaN ELSE a * b

\* lines 138 and 140: the caller's revenue frame, mutated in place
ParseRevenue(revenue_df) ==
    [i \in 1..Len(revenue_df) |->
        [revenue_df[i] EXCEPT !.Date = to_datetime(revenue_df[i].Date)]]

\* line 139: the caller's rate frame, mutated in place
ParseRates(currency_df) ==
    [i \in 1..Len(currency_df) |->
        [currency_df[i] EXCEPT !.DATE = to_datetime(currency_df[i].DATE)]]

\* merge keys: pandas matches a null key with a null key
RateMatches(r, currency_df) ==
    SelectSeq(currency_df,
              LAMBDA q : q.FROM_CURRENCY = r.Currency /\ q.DATE = r.Date)

NoRate == [FROM_CURRENCY |-> NA, DATE |-> NaT, EXCHANGE_RATE |-> NaN]

\* mutant: no pass-through of USD rows
Revenue_USD_AlwaysRate(Currency, Revenue, EXCHANGE_RATE) ==
    Mul(Revenue, EXCHANGE_RATE)

Revenue_USD(Currency, Revenue, EXCHANGE_RATE) ==
    IF Currency = "USD" THEN Revenue ELSE Mul(Revenue, EXCHANGE_RATE)

JoinRate(r, q) ==
    [UserID |-> r.UserID, Date |-> r.Date, Revenue |-> r.Revenue,
     ID |-> r.ID, Country |-> r.Country, Email |-> r.Email,
     Name |-> r.Name, Team |-> r.Team, Currency |-> r.Currency,
     FROM_CURRENCY |-> q.FROM_CURRENCY, DATE |-> q.DATE,
     EXCHANGE_RATE |-> q.EXCHANGE_RATE,
     Revenue_USD |-> Revenue_USD(r.Currency, r.Revenue, q.EXCHANGE_RATE)]

RateRowsFor(r, currency_df) ==
    LET m == RateMatches(r, currency_df)
    IN IF m = <<>> THEN <<JoinRate(r, NoRate)>>
       ELSE [k \in 1..Len(m) |-> JoinRate(r, m[k])]

convert_currency(revenue_df, currency_df) ==
    LET rev == ParseRevenue(revenue_df)
        cur == ParseRates(currency_df)
    IN Flatten([i \in 1..Len(rev) |-> RateRowsFor(rev[i], cur)])

\* ------------------------------------------------------------ groupby/agg
\* mutant: sum(skipna=False), a missing value makes the total missing
RECURSIVE agg_sum_PropagateNaN(_)
agg_sum_PropagateNaN(v) ==
    IF v = <<>> THEN 0
    ELSE LET rest == agg_sum_PropagateNaN(Tail(v))
         IN IF Head(v) = NaN \/ rest = NaN THEN NaN ELSE Head(v) + rest

\* mutant: 'Revenue_USD': 'first' in place of 'sum'
RECURSIVE agg_sum_First(_)
agg_sum_First(v) ==
    IF v = <<>> THEN 0
    ELSE IF Head(v) # NaN THEN Head(v) ELSE agg_sum_First(Tail(v))

\* 'sum': missing values are skipped, an empty sum is 0
RECURSIVE agg_sum(_)
agg_sum(v) ==
    IF v = <<>> THEN 0
    ELSE (IF Head(v) = NaN THEN 0 ELSE Head(v)) + agg_sum(Tail(v))

\* mutant: the cell of the first row of the group, missing or not
agg_first_FirstRow(v) == IF v = <<>> THEN NA ELSE Head(v)

\* 'first': the first non-missing value of the column in the group
RECURSIVE agg_first(_)
agg_first(v) ==
    IF v = <<>> THEN NA
    ELSE IF Head(v) # NA THEN Head(v) ELSE agg_first(Tail(v))

\* ------------------------------------------------------ get_quarterly_rev
QuarterKey(r) == <<r.ID, r.Date[1]>>

\* groupby drops the rows with a missing key (dropna=True)
HasQuarterKey(r) == r.ID # NaN /\ r.Date # NaT

QuarterGroup(df, k) ==
    SelectSeq(df, LAMBDA r : HasQuarterKey(r) /\ QuarterKey(r) = k)

get_quarterly_rev(revenue_df) ==
    LET keys == SortedKeys({QuarterKey(revenue_df[i]) :
                    i \in {j \in 1..Len(revenue_df) : HasQuarterKey(revenue_df[j])}})
    IN [n \in 1..Len(keys) |->
          LET g == QuarterGroup(revenue_df, keys[n])
          IN [ID |-> keys[n][1], Date |-> <<keys[n][2]>>,
              Email |-> agg_first([i \in 1..Len(g) |-> g[i].Email]),
              Name |-> agg_first([i \in 1..Len(g) |-> g[i].Name]),
              Team |-> agg_first([i \in 1..Len(g) |-> g[i].Team]),
              Revenue_USD |-> agg_sum([i \in 1..Len(g) |-> g[i].Revenue_USD])]]

\* ---------------------------------------------- get_total_monthly_revenue
\* dt.to_period('M'): the year and month of a datetime
to_period_M(d) == IF d = NaT THEN NaN ELSE d[1] \div 100

AddMonth(df) ==
    [i \in 1..Len(df) |->
        [UserID |-> df[i].UserID, Date |-> df[i].Date, Revenue |-> df[i].Revenue,
         ID |-> df[i].ID, Country |-> df[i].Country, Email |-> df[i].Email,
         Name |-> df[i].Name, Team |-> df[i].Team, Currency |-> df[i].Currency,
         FROM_CURRENCY |-> df[i].FROM_CURRENCY, DATE |-> df[i].DATE,
         EXCHANGE_RATE |-> df[i].EXCHANGE_RATE,
         Revenue_USD |-> df[i].Revenue_USD,
         Month |-> to_period_M(to_datetime(df[i].Date))]]

MonthGroup(df, m) == SelectSeq(df, LAMBDA r : r.Month # NaN /\ r.Month = m)

get_total_monthly_revenue(df) ==
    LET d == AddMonth(df)
        keys == SortedKeys({<<d[i].Month>> :
                    i \in {j \in 1..Len(d) : d[j].Month # NaN}})
    IN [n \in 1..Len(keys) |->
          [Month |-> keys[n][1],
           Revenue_USD |->
               LET g == MonthGroup(d, keys[n][1])
               IN agg_sum([i \in 1..Len(g) |-> g[i].Revenue_USD])]]

\* -------------------------------------------------------------- sales_rev
UserGroup(df, u) == SelectSeq(df, LAMBDA r : r.UserID = u)

\* lines 32-34 (Rep_Or_Director, Status and Region are aggregated by 'first'
\* like Email and are not carried by the model)
GroupByUser(df) ==
    LET keys == SortedKeys({<<df[i].UserID>> : i \in 1..Len(df)})
    IN [n \in 1..Len(keys) |->
          LET g == UserGroup(df, keys[n][1])
          IN [UserID |-> keys[n][1],
              Email |-> agg_first([i \in 1..Len(g) |-> g[i].Email]),
              Name |-> agg_first([i \in 1..Len(g) |-> g[i].Name]),
              Team |-> agg_first([i \in 1..Len(g) |-> g[i].Team]),
              Country |-> agg_first([i \in 1..Len(g) |-> g[i].Country]),
              Currency |-> agg_first([i \in 1..Len(g) |-> g[i].Currency]),
              Revenue_USD |-> agg_sum([i \in 1..Len(g) |-> g[i].Revenue_USD])]]

\* mutant: only the first ID of the list is used
FilterSales_FirstId(ids, sales_df) ==
    SelectSeq(sales_df, LAMBDA r : r.UserID = Head(ids))

\* line 24: sales_df[sales_df['UserID'].isin(sales_id)]
FilterSales(ids, sales_df) ==
    SelectSeq(sales_df, LAMBDA r : r.UserID \in Range(ids))

\* lines 24-30: the local frame filtered_sales after convert_currency
SalesFrame(ids, sales_df, teams_df, currency_df) ==
    convert_currency(
        get_team(FilterSales(ids, sales_df), get_currency_code(teams_df)),
        currency_df)

sales_rev(ids, sales_df, teams_df, currency_df) ==
    GroupByUser(SalesFrame(ids, sales_df, teams_df, currency_df))

\* ---------------------------------------------------------- export_to_csv
\* raises ValueError on an empty frame; TRUE when the file is written
export_to_csv(df) == df # <<>>

\* ---------------------------------------------------------------- inputs
\* rows the three files may hold: a user with two directory records (one in
\* the US, one in Japan with no Email), a user in Japan with no Name and Team
TeamRows ==
    {[ID |-> 1, Country |-> "US", Email |-> "ann@x", Name |-> "Ann", Team |-> "East"],
     [ID |-> 1, Country |-> "Japan", Email |-> NA, Name |-> "Bob", Team |-> "West"],
     [ID |-> 2, Country |-> "Japan", Email |-> "cy@x", Name |-> NA, Team |-> NA]}

\* two dates of one month and a date of the next
RevenueRows ==
    {[UserID |-> 1, Date |-> <<2024, 1, 1>>, Revenue |-> 7],
     [UserID |-> 1, Date |-> <<2024, 1, 15>>, Revenue |-> 5],
     [UserID |-> 2, Date |-> <<2024, 2, 5>>, Revenue |-> 5]}

\* the last row has an empty FROM_CURRENCY cell
RateRows ==
    {[FROM_CURRENCY |-> "JPY", DATE |-> <<2024, 1, 1>>, EXCHANGE_RATE |-> 2],
     [FROM_CURRENCY |-> "USD", DATE |-> <<2024, 1, 1>>, EXCHANGE_RATE |-> 3],
     [FROM_CURRENCY |-> NA, DATE |-> <<2024, 1, 1>>, EXCHANGE_RATE |-> 3]}

SalesIds == {<<1>>, <<2>>, <<1, 2>>, <<3>>}

\* ------------------------------------------------------------------ Init
\* the three files have been read (read_file), nothing has been computed
Init ==
    /\ teams \in SeqsUpTo(TeamRows, MaxTeams)
    /\ revenue \in SeqsUpTo(RevenueRows, MaxRevenue)
    /\ rates \in SeqsUpTo(RateRows, MaxRates)
    /\ pc = "loaded"
    /\ joined = <<>>
    /\ converted = <<>>
    /\ quarterly_rev = <<>>
    /\ monthly_rev = <<>>
    /\ sales_id = <<>>
    /\ filtered_sales = <<>>
    /\ total_revenue = <<>>

\* --------------------------------------------------------------- actions
\* revenue_analysis.main, line 283
GetCurrencyCode ==
    /\ pc = "loaded"
    /\ teams' = get_currency_code(teams)
    /\ pc' = "coded"
    /\ UNCHANGED <<revenue, rates, joined, converted, quarterly_rev,
                   monthly_rev, sales_id, filtered_sales, total_revenue>>

\* revenue_analysis.main, line 285
GetTeam ==
    /\ pc = "coded"
    /\ joined' = get_team(revenue, teams)
    /\ pc' = "joined"
    /\ UNCHANGED <<teams, revenue, rates, converted, quarterly_rev,
                   monthly_rev, sales_id, filtered_sales, total_revenue>>

\* revenue_analysis.main, lines 287-288
ConvertCurrency ==
    /\ pc = "joined"
    /\ converted' = convert_currency(joined, rates)
    /\ joined' = ParseRevenue(joined)
    /\ rates' = ParseRates(rates)
    /\ pc' = IF export_to_csv(converted') THEN "converted" ELSE "error"
    /\ UNCHANGED <<teams, revenue, quarterly_rev, monthly_rev, sales_id,
                   filtered_sales, total_revenue>>

\* revenue_analysis.main, lines 290-291
GetQuarterlyRev ==
    /\ pc = "converted"
    /\ quarterly_rev' = get_quarterly_rev(converted)
    /\ pc' = IF export_to_csv(quarterly_rev') THEN "quarterly" ELSE "error"
    /\ UNCHANGED <<teams, revenue, rates, joined, converted, monthly_rev,
                   sales_id, filtered_sales, total_revenue>>

\* revenue_analysis.main, lines 293-294
GetTotalMonthlyRevenue ==
    /\ pc = "quarterly"
    /\ monthly_rev' = get_total_monthly_revenue(converted)
    /\ converted' = AddMonth(converted)
    /\ pc' = IF export_to_csv(monthly_rev') THEN "done" ELSE "error"
    /\ UNCHANGED <<teams, revenue, rates, joined, quarterly_rev, sales_id,
                   filtered_sales, total_revenue>>

\* detailed_rev.main, lines 85-91
SalesRev ==
    /\ pc = "loaded"
    /\ \E ids \in SalesIds :
          /\ sales_id' = ids
          /\ filtered_sales' = SalesFrame(ids, revenue, teams, rates)
          /\ total_revenue' = sales_rev(ids, revenue, teams, rates)
    /\ teams' = get_currency_code(teams)
    /\ rates' = ParseRates(rates)
    /\ pc' = IF export_to_csv(total_revenue') THEN "sales_done" ELSE "error"
    /\ UNCHANGED <<revenue, joined, converted, quarterly_rev, monthly_rev>>

Next ==
    \/ GetCurrencyCode
    \/ GetTeam
    \/ ConvertCurrency
    \/ GetQuarterlyRev
    \/ GetTotalMonthlyRevenue
    \/ SalesRev

Spec == Init /\ [][Next]_vars

\* ------------------------------------------- team tables over every country
Countries ==
    {"US", "Japan", "Netherlands", "Spain", "Australia", "UK", "Brazil",
     "Canada", "India", "Mexico", "Singapore", "Atlantis", "Germany", NA}

CountryRows ==
    {[ID |-> 1, Country |-> c, Email |-> "ann@x", Name |-> "Ann",
      Team |-> "East"] : c \in Countries}

InitCountries ==
    /\ teams \in SeqsUpTo(CountryRows, MaxTeams)
    /\ revenue \in SeqsUpTo({r \in RevenueRows : r.Revenue = 7}, 1)
    /\ rates \in SeqsUpTo({q \in RateRows : q.FROM_CURRENCY = "JPY"}, 1)
    /\ pc = "loaded"
    /\ joined = <<>>
    /\ converted = <<>>
    /\ quarterly_rev = <<>>
    /\ monthly_rev = <<>>
    /\ sales_id = <<>>
    /\ filtered_sales = <<>>
    /\ total_revenue = <<>>

SpecCountries == InitCountries /\ [][Next]_vars

\* ------------------------------------- the aggregations as pure functions
MaxAggRows == 3

AggTeams ==
    <<[ID |-> 1, Country |-> "US", Email |-> "ann@x", Name |-> "Ann", Team |-> "East"],
      [ID |-> 1, Country |-> "Japan", Email |-> NA, Name |-> "Bob", Team |-> "West"],
      [ID |-> 2, Country |-> "Japan", Email |-> "cy@x", Name |-> NA, Team |-> NA]>>

AggRevenue ==
    <<[UserID |-> 1, Date |-> <<2024, 1, 1>>, Revenue |-> 7],
      [UserID |-> 1, Date |-> <<2024, 1, 15>>, Revenue |-> 5],
      [UserID |-> 2, Date |-> <<2024, 1, 1>>, Revenue |-> 5],
      [UserID |-> 2, Date |-> <<2024, 2, 5>>, Revenue |-> 5],
      [UserID |-> 3, Date |-> <<2024, 2, 5>>, Revenue |-> 5]>>

AggRates ==
    <<[FROM_CURRENCY |-> "JPY", DATE |-> <<2024, 1, 1>>, EXCHANGE_RATE |-> 2]>>

\* the rows convert_currency outputs on these tables
AggRows ==
    Range(convert_currency(get_team(AggRevenue, get_currency_code(AggTeams)),
                           AggRates))

\* the frame handed to the aggregations, in any row order
InitAgg ==
    /\ teams = get_currency_code(AggTeams)
    /\ revenue = AggRevenue
    /\ rates = ParseRates(AggRates)
    /\ pc = "converted"
    /\ joined = <<>>
    /\ converted \in SeqsUpTo(AggRows, MaxAggRows) \ {<<>>}
    /\ quarterly_rev = <<>>
    /\ monthly_rev = <<>>
    /\ sales_id = <<>>
    /\ filtered_sales = <<>>
    /\ total_revenue = <<>>

NextAgg ==
    \/ GetQuarterlyRev
    \/ GetTotalMonthlyRevenue

SpecAgg == InitAgg /\ [][NextAgg]_vars

\* ============================================================ properties
Idx(df) == 1..Len(df)

RECURSIVE SetSum(_, _)
SetSum(I, v) ==
    IF I = {} THEN 0
    ELSE LET i == CHOOSE j \in I : TRUE IN v[i] + SetSum(I \ {i}, v)

\* sum of the non-missing Revenue_USD cells of the rows I of df
Total(df, I) ==
    SetSum({i \in I : df[i].Revenue_USD # NaN},
           [i \in Idx(df) |-> df[i].Revenue_USD])

Min(I) == CHOOSE i \in I : \A j \in I : i <= j

RateKeyIdx(o) ==
    {k \in Idx(rates) : rates[k].FROM_CURRENCY = o.Currency /\ rates[k].DATE = o.Date}

\* C1: every record output by convert_currency has Revenue_USD = Revenue when
\* its Currency is "USD" (whatever the rate table holds for USD), and
\* Revenue_USD = Revenue * EXCHANGE_RATE of the rate row when exactly one
\* rate row has its (Currency, Date)
C1_ConvertedValue ==
    \A n \in Idx(converted) :
        LET o == converted[n]
        IN IF o.Currency = "USD" THEN o.Revenue_USD = o.Revenue
           ELSE Cardinality(RateKeyIdx(o)) = 1 =>
                  \E k \in RateKeyIdx(o) :
                      o.Revenue_USD = o.Revenue * rates[k].EXCHANGE_RATE

C1_Witness ==
    /\ pc = "converted"
    /\ \E n \in Idx(converted) :
          converted[n].Currency = "USD" /\ RateKeyIdx(converted[n]) # {}
    /\ \E n \in Idx(converted) :
          /\ converted[n].Currency = "JPY"
          /\ Cardinality(RateKeyIdx(converted[n])) = 1

CurrencyTable ==
    ("US" :> "USD") @@ ("Japan" :> "JPY") @@ ("Netherlands" :> "EUR") @@
    ("Spain" :> "EUR") @@ ("Australia" :> "AUD") @@ ("UK" :> "GBP") @@
    ("Brazil" :> "BRL") @@ ("Canada" :> "CAD") @@ ("India" :> "INR") @@
    ("Mexico" :> "MXN") @@ ("Singapore" :> "SGD")

ProjRevenue(o) == [UserID |-> o.UserID, Date |-> o.Date, Revenue |-> o.Revenue]

ProjJoined(o) ==
    [UserID |-> o.UserID, Date |-> o.Date, Revenue |-> o.Revenue, ID |-> o.ID,
     Country |-> o.Country, Email |-> o.Email, Name |-> o.Name,
     Team |-> o.Team, Currency |-> o.Currency]

\* number of team records whose ID is the UserID u
TeamCount(u) == Cardinality({k \in Idx(teams) : teams[k].ID = u})

\* C4: get_team and convert_currency keep every row of their input: the output
\* has at least as many rows, every input row occurs in it at least as often
\* as in the input, and get_team keeps the row count exactly when no revenue
\* row matches more than one team record
C4_NoRowDropped ==
    /\ pc = "joined" =>
          /\ Len(joined) >= Len(revenue)
          /\ \A i \in Idx(revenue) :
                Cardinality({j \in Idx(joined) : ProjRevenue(joined[j]) = revenue[i]})
                  >= Cardinality({j \in Idx(revenue) : revenue[j] = revenue[i]})
          /\ (Len(joined) = Len(revenue)) <=>
                (\A i \in Idx(revenue) : TeamCount(revenue[i].UserID) <= 1)
    /\ pc \in {"converted", "quarterly", "done", "error"} =>
          /\ Len(converted) >= Len(joined)
          /\ \A i \in Idx(joined) :
                Cardinality({j \in Idx(converted) : ProjJoined(converted[j]) = joined[i]})
                  >= Cardinality({j \in Idx(joined) : joined[j] = joined[i]})

C4_Witness ==
    /\ pc = "converted"
    /\ Len(joined) > Len(revenue)
    /\ Len(converted) > Len(joined)
    /\ \E i \in Idx(revenue) : TeamCount(revenue[i].UserID) = 0

\* C5 as stated: every input revenue row occurs exactly once in the output of
\* get_team, whatever the number of team records matching its UserID
C5_ExactlyOnce ==
    pc = "joined" =>
        \A i \in Idx(revenue) :
            Cardinality({j \in Idx(joined) : ProjRevenue(joined[j]) = revenue[i]})
              = Cardinality({j \in Idx(revenue) : revenue[j] = revenue[i]})

\* C5 amended: an input revenue row occurs once in the output of get_team when
\* zero or one team record matches its UserID, and once per matching team
\* record when several match
C5_OncePerMatch ==
    pc = "joined" =>
        \A i \in Idx(revenue) :
            Cardinality({j \in Idx(joined) : ProjRevenue(joined[j]) = revenue[i]})
              = Cardinality({j \in Idx(revenue) : revenue[j] = revenue[i]})
                * (IF TeamCount(revenue[i].UserID) = 0 THEN 1
                   ELSE TeamCount(revenue[i].UserID))

C5_Witness ==
    /\ pc = "joined"
    /\ \E i \in Idx(revenue) : TeamCount(revenue[i].UserID) = 2
    /\ \E i \in Idx(revenue) : TeamCount(revenue[i].UserID) = 0

\* the frame of the full pipeline on the loaded tables
FullFrame ==
    convert_currency(get_team(revenue, get_currency_code(teams)), rates)

\* C6: sales_rev returns one row for each UserID of the list that has a revenue
\* record and no other row, and the row's Revenue_USD is the total of that
\* user's rows in the frame of the unfiltered pipeline
C6_SalesRev ==
    sales_id # <<>> =>
        LET full == FullFrame
        IN /\ {total_revenue[n].UserID : n \in Idx(total_revenue)}
                = {u \in Range(sales_id) :
                     \E i \in Idx(revenue) : revenue[i].UserID = u}
           /\ \A m, n \in Idx(total_revenue) :
                 total_revenue[m].UserID = total_revenue[n].UserID => m = n
           /\ \A n \in Idx(total_revenue) :
                 total_revenue[n].Revenue_USD =
                   Total(full, {i \in Idx(full) :
                                  full[i].UserID = total_revenue[n].UserID})

C6_Witness ==
    /\ pc = "sales_done"
    /\ Len(sales_id) = 1
    /\ \E i \in Idx(revenue) : revenue[i].UserID \notin Range(sales_id)
    /\ total_revenue[1].Revenue_USD > 0
    /\ Len(filtered_sales) > 1

\* rows of the converted frame in the group of a quarterly, monthly or
\* sales-rep result row
QuarterIdx(q) ==
    {i \in Idx(converted) : converted[i].ID = q.ID /\ converted[i].Date = q.Date}

MonthIdx(m) ==
    {i \in Idx(converted) : to_period_M(converted[i].Date) = m.Month}

SalesIdx(t) == {i \in Idx(filtered_sales) : filtered_sales[i].UserID = t.UserID}

AllMissing(df, I) == \A i \in I : df[i].Revenue_USD = NaN

\* C7: in the three aggregations the total of a group is the sum of its
\* non-missing Revenue_USD values, and 0 (not missing) when all are missing
C7_MissingCountsAsZero ==
    /\ \A n \in Idx(quarterly_rev) :
          LET I == QuarterIdx(quarterly_rev[n])
          IN /\ quarterly_rev[n].Revenue_USD = Total(converted, I)
             /\ AllMissing(converted, I) => quarterly_rev[n].Revenue_USD = 0
    /\ \A n \in Idx(monthly_rev) :
          LET I == MonthIdx(monthly_rev[n])
          IN /\ monthly_rev[n].Revenue_USD = Total(converted, I)
             /\ AllMissing(converted, I) => monthly_rev[n].Revenue_USD = 0
    /\ \A n \in Idx(total_revenue) :
          LET I == SalesIdx(total_revenue[n])
          IN /\ total_revenue[n].Revenue_USD = Total(filtered_sales, I)
             /\ AllMissing(filtered_sales, I) => total_revenue[n].Revenue_USD = 0

\* a quarterly group with missing values only and a monthly group mixing a
\* missing value with a defined one
C7_Witness ==
    /\ pc = "done"
    /\ \E n \in Idx(quarterly_rev) :
          AllMissing(converted, QuarterIdx(quarterly_rev[n]))
    /\ \E n \in Idx(monthly_rev) :
          /\ \E i \in MonthIdx(monthly_rev[n]) : converted[i].Revenue_USD = NaN
          /\ \E i \in MonthIdx(monthly_rev[n]) : converted[i].Revenue_USD # NaN

Permute(df, p) == [i \in Idx(df) |-> df[p[i]]]

\* the groups of an aggregation result with their totals
QuarterTotals(out) == {<<out[n].ID, out[n].Date, out[n].Revenue_USD>> : n \in Idx(out)}

MonthTotals(out) == {<<out[n].Month, out[n].Revenue_USD>> : n \in Idx(out)}

UserTotals(out) == {<<out[n].UserID, out[n].Revenue_USD>> : n \in Idx(out)}

C9_EveryPairFirstRow ==
    pc \in {"quarterly", "done"} =>
        /\ {<<quarterly_rev[n].ID, quarterly_rev[n].Date>> : n \in Idx(quarterly_rev)}
             = {<<converted[i].ID, converted[i].Date>> : i \in Idx(converted)}
        /\ \A m, n \in Idx(quarterly_rev) :
              (quarterly_rev[m].ID = quarterly_rev[n].ID
                 /\ quarterly_rev[m].Date = quarterly_rev[n].Date) => m = n
        /\ \A n \in Idx(quarterly_rev) :
              LET I == QuarterIdx(quarterly_rev[n])
              IN /\ quarterly_rev[n].Revenue_USD = Total(converted, I)
                 /\ quarterly_rev[n].Email = converted[Min(I)].Email
                 /\ quarterly_rev[n].Name = converted[Min(I)].Name
                 /\ quarterly_rev[n].Team = converted[Min(I)].Team

\* first non-missing cell of a column among the rows I, missing when there is none
FirstPresent(col, I) ==
    IF \A i \in I : col[i] = NA THEN NA
    ELSE col[Min({i \in I : col[i] # NA})]

\* C9 amended: one row for every (ID, Date) pair of the input whose ID and
\* Date are not missing and no row for the others; its Revenue_USD is the sum
\* of the non-missing Revenue_USD of the pair's rows; its Email, Name and Team
\* are each the first non-missing value of that column among the pair's rows
C9_PresentPairsFirstPresent ==
    pc \in {"quarterly", "done", "error"} =>
        /\ {<<quarterly_rev[n].ID, quarterly_rev[n].Date>> : n \in Idx(quarterly_rev)}
             = {<<converted[i].ID, converted[i].Date>> :
                  i \in {j \in Idx(converted) :
                           converted[j].ID # NaN /\ converted[j].Date # NaT}}
        /\ \A m, n \in Idx(quarterly_rev) :
              (quarterly_rev[m].ID = quarterly_rev[n].ID
                 /\ quarterly_rev[m].Date = quarterly_rev[n].Date) => m = n
        /\ \A n \in Idx(quarterly_rev) :
              LET I == QuarterIdx(quarterly_rev[n])
              IN /\ quarterly_rev[n].Revenue_USD = Total(converted, I)
                 /\ quarterly_rev[n].Email =
                      FirstPresent([i \in Idx(converted) |-> converted[i].Email], I)
                 /\ quarterly_rev[n].Name =
                      FirstPresent([i \in Idx(converted) |-> converted[i].Name], I)
                 /\ quarterly_rev[n].Team =
                      FirstPresent([i \in Idx(converted) |-> converted[i].Team], I)

C9_Witness ==
    /\ pc = "quarterly"
    /\ \E i \in Idx(converted) : converted[i].ID = NaN
    /\ \E n \in Idx(quarterly_rev) :
          LET I == QuarterIdx(quarterly_rev[n])
          IN /\ converted[Min(I)].Email = NA
             /\ quarterly_rev[n].Email # NA
             /\ quarterly_rev[n].Revenue_USD > 0

\* C10: a revenue row whose UserID matches no team record has a missing
\* Currency and a missing Revenue_USD whatever the rate table holds, and the
\* quarterly totals add up to the same amount as the monthly totals
C10_UnmatchedAddsNothing ==
    /\ \A i \in Idx(converted) :
          TeamCount(converted[i].UserID) = 0 =>
              converted[i].Currency = NA /\ converted[i].Revenue_USD = NaN
    /\ \A n \in Idx(total_revenue) :
          TeamCount(total_revenue[n].UserID) = 0 => total_revenue[n].Revenue_USD = 0
    /\ pc = "done" =>
          Total(quarterly_rev, Idx(quarterly_rev)) = Total(monthly_rev, Idx(monthly_rev))
====
